---- MODULE Spec2Model ----
(***************************************************************************)
(* The incremental re-embedding cache of ai-rag-ombre (embed_cache.py) and *)
(* the ingestion run that uses it (main_lore.py: load_documents, main).    *)
(*                                                                         *)
(* Strings that the code inspects (file names, paths) are sequences of     *)
(* one-character strings, file contents are sequences of byte values.      *)
(* The file system, the cache file embed_cache.json and the vector store   *)
(* are the environment; every step of load_documents that touches the      *)
(* file system is an action of its own, so that an interruption or a       *)
(* writer can fall between two of them.                                    *)
(***************************************************************************)
EXTENDS Integers, Sequences, FiniteSets, TLC

\* Number of distinct non-empty valid UTF-8 contents a file may hold
\* (besides them: the empty file, and one content that is not UTF-8).
NumTexts == 2

\* Writes by another process during one run of load_documents.
MaxRaces == 1

\* similarity_search("ignore", k=1000)
SimilaritySearchK == 1000

(***************************************************************************)
(* The document tree                                                       *)
(***************************************************************************)
DataDir == <<"d", "a", "t", "a">>

SubDir == DataDir \o <<"/", "s", "u", "b">>

\* The directories in the order os.walk (top-down) yields them.
WalkDirs == <<DataDir, SubDir>>

\* The directory entries that may exist: (root, filename) as os.walk gives them.
Entries ==
    { [root |-> DataDir, filename |-> <<"a", ".", "m", "d">>],
      [root |-> DataDir, filename |-> <<"n", ".", "p", "y">>],
      [root |-> SubDir,  filename |-> <<"b", ".", "t", "x", "t">>] }

\* os.path.join(root, filename)
os_path_join(root, filename) == root \o <<"/">> \o filename

Paths == { os_path_join(e.root, e.filename) : e \in Entries }

\* str.endswith
endswith(s, suffix) ==
    /\ Len(s) >= Len(suffix)
    /\ SubSeq(s, Len(s) - Len(suffix) + 1, Len(s)) = suffix

\* A traversal without the extension filter.
Qualifies_any(filename) == TRUE

\* filename.endswith(".md") or filename.endswith(".txt")
Qualifies(filename) ==
    \/ endswith(filename, <<".", "m", "d">>)
    \/ endswith(filename, <<".", "t", "x", "t">>)

(***************************************************************************)
(* File contents                                                           *)
(***************************************************************************)
\* Byte 255 never occurs in valid UTF-8; bytes 65.. are ASCII letters.
Contents ==
    { <<>>, <<255>> } \cup { <<64 + i>> : i \in 1..NumTexts }

Absent == [exists |-> FALSE, readable |-> FALSE, bytes |-> <<>>]

\* Listed by os.walk but open() fails (permission denied, dangling link).
Locked == [exists |-> TRUE, readable |-> FALSE, bytes |-> <<>>]

RegularFile(b) == [exists |-> TRUE, readable |-> TRUE, bytes |-> b]

FileStates == { Absent, Locked } \cup { RegularFile(b) : b \in Contents }

\* open(path, "rb") succeeds
CanOpen(f) == f.exists /\ f.readable

\* bytes.decode("utf-8") succeeds
Utf8Valid(b) == \A i \in 1..Len(b) : b[i] < 128

Alphabet == <<"A", "B", "C", "D">>

\* The text f.read() returns for a UTF-8 file of ASCII letters.
utf8_decode(b) == [i \in 1..Len(b) |-> Alphabet[b[i] - 64]]

\* hashlib.md5(bytes).hexdigest(): a deterministic fixed-width digest of the
\* bytes, free of collisions on the contents considered here.
RECURSIVE md5(_)
md5(b) ==
    IF b = <<>> THEN 5381
    ELSE (md5(SubSeq(b, 1, Len(b) - 1)) * 33 + b[Len(b)]) % (2 ^ 24)

\* get_file_hash(filepath), for a file that can be opened
get_file_hash(filepath, fsys) == md5(fsys[filepath].bytes)

(***************************************************************************)
(* The cache: a dict path -> digest, and its JSON file                     *)
(***************************************************************************)
EmptyDict == [k \in {} |-> 0]

\* cache.get(key): <<value>>, or <<>> for None
dict_get(cache, key) == IF key \in DOMAIN cache THEN <<cache[key]>> ELSE <<>>

\* cache[key] = value
dict_set(cache, key, value) ==
    [k \in DOMAIN cache \cup {key} |-> IF k = key THEN value ELSE cache[k]]

NoFile == [exists |-> FALSE, members |-> {}, closed |-> FALSE]

\* open(CACHE_FILE, "w"): the file exists and is empty
Truncated == [exists |-> TRUE, members |-> {}, closed |-> FALSE]

\* json.dump(cache, f): the object's members and its closing brace
json_dump(cache) ==
    [exists |-> TRUE,
     members |-> { <<k, cache[k]>> : k \in DOMAIN cache },
     closed |-> TRUE]

\* json.load(f) succeeds
json_valid(text) == text.closed

json_load(text) ==
    [k \in { m[1] : m \in text.members } |->
        (CHOOSE m \in text.members : m[1] = k)[2]]

\* load_cache(), when it does not raise
load_cache(d) == IF d.exists THEN json_load(d) ELSE EmptyDict

\* file_needs_embedding(filepath, cache)
file_needs_embedding(filepath, cache, fsys) ==
    <<get_file_hash(filepath, fsys)>> # dict_get(cache, filepath)

\* An update_cache that records nothing.
update_cache_noop(filepath, cache, fsys) == cache

\* An update_cache that starts a new dict instead of updating the loaded one.
update_cache_fresh(filepath, cache, fsys) ==
    dict_set(EmptyDict, filepath, get_file_hash(filepath, fsys))

\* update_cache(filepath, cache): cache[filepath] = get_file_hash(filepath)
update_cache(filepath, cache, fsys) ==
    dict_set(cache, filepath, get_file_hash(filepath, fsys))

\* Document(page_content=content, metadata={"source": file_path})
Document(content, file_path) == [page_content |-> content, source |-> file_path]

(***************************************************************************)
(* State                                                                   *)
(***************************************************************************)
VARIABLES
    fs,         \* the document tree: path -> file state
    disk,       \* embed_cache.json
    store,      \* the vector store's documents
    pc,         \* where load_documents is
    mpc,        \* where main is ("off": load_documents is called directly)
    err,        \* the exception that ended load_documents, at pc = "raised"
    cache,      \* load_documents' cache dict
    documents,  \* load_documents' documents list, then main's
    dirs,       \* directories os.walk has still to yield
    root,       \* the directory os.walk yielded last
    todo,       \* files of root still to visit
    cur,        \* file_path of the file being visited
    new_docs,   \* main's new_docs
    disk0,      \* history: embed_cache.json when the run began
    cache0,     \* history: what load_cache returned
    saves,      \* history: calls of save_cache in this run
    added,      \* history: documents passed to add_documents by this main
    races,      \* history: writes by another process during this run
    quiet       \* history: the last run returned and no file changed since

vars ==
    << fs, disk, store, pc, mpc, err, cache, documents, dirs, root, todo, cur,
       new_docs, disk0, cache0, saves, added, races, quiet >>

local == << cache, documents, dirs, root, todo, cur >>
hist == << disk0, cache0, saves, races >>
mainv == << mpc, new_docs, added, store >>

NoPath == <<>>

\* The run's variables when no run is in progress.
Cleared ==
    /\ cache' = EmptyDict
    /\ dirs' = <<>>
    /\ root' = <<>>
    /\ todo' = <<>>
    /\ cur' = NoPath
    /\ disk0' = NoFile
    /\ cache0' = EmptyDict
    /\ saves' = 0
    /\ races' = 0
    /\ err' = "none"

Init ==
    /\ fs \in [Paths -> FileStates]
    /\ disk = NoFile
    /\ store = {}
    /\ pc = "idle"
    /\ mpc = "off"
    /\ err = "none"
    /\ cache = EmptyDict
    /\ documents = <<>>
    /\ dirs = <<>>
    /\ root = <<>>
    /\ todo = <<>>
    /\ cur = NoPath
    /\ new_docs = <<>>
    /\ disk0 = NoFile
    /\ cache0 = EmptyDict
    /\ saves = 0
    /\ races = 0
    /\ added = {}
    /\ quiet = FALSE

(***************************************************************************)
(* load_documents                                                          *)
(***************************************************************************)
\* The orders in which a directory's entries may come.
Orderings(S) ==
    { s \in [1..Cardinality(S) -> S] :
        \A i, j \in 1..Cardinality(S) : s[i] = s[j] => i = j }

\* The file names os.walk lists for a directory: every entry that exists.
Listing(dir, fsys) ==
    { e.filename : e \in { x \in Entries :
        x.root = dir /\ fsys[os_path_join(x.root, x.filename)].exists } }

\* An exception leaves the run where it is; it is not caught anywhere.
Raise(e) ==
    /\ pc' = "raised"
    /\ err' = e
    /\ UNCHANGED << fs, disk, local, hist, mainv, quiet >>

\* documents = []; cache = load_cache()
load_documents_begin ==
    /\ pc = "idle"
    /\ mpc \in {"off", "load"}
    /\ disk0' = disk
    /\ saves' = 0
    /\ races' = 0
    /\ documents' = <<>>
    /\ root' = <<>>
    /\ todo' = <<>>
    /\ cur' = NoPath
    /\ IF disk.exists /\ ~json_valid(disk)
       THEN /\ pc' = "raised"
            /\ err' = "JSONDecodeError"
            /\ cache' = EmptyDict
            /\ cache0' = EmptyDict
            /\ dirs' = <<>>
       ELSE /\ pc' = "walk"
            /\ err' = "none"
            /\ cache' = load_cache(disk)
            /\ cache0' = load_cache(disk)
            /\ dirs' = WalkDirs
    /\ UNCHANGED << fs, disk, mainv, quiet >>

\* for root, _, files in os.walk(folder): the next directory is listed
os_walk_next ==
    /\ pc = "walk"
    /\ todo = <<>>
    /\ dirs # <<>>
    /\ root' = Head(dirs)
    /\ dirs' = Tail(dirs)
    /\ todo' \in Orderings(Listing(Head(dirs), fs))
    /\ UNCHANGED << fs, disk, pc, err, cache, documents, cur, hist, mainv, quiet >>

\* for filename in files: if filename.endswith(...): file_path = os.path.join(...)
next_file ==
    /\ pc = "walk"
    /\ todo # <<>>
    /\ todo' = Tail(todo)
    /\ IF Qualifies(Head(todo))
       THEN /\ cur' = os_path_join(root, Head(todo))
            /\ pc' = "needs"
       ELSE UNCHANGED << cur, pc >>
    /\ UNCHANGED << fs, disk, err, cache, documents, dirs, root, hist, mainv, quiet >>

\* if file_needs_embedding(file_path, cache):
check_file ==
    /\ pc = "needs"
    /\ IF ~CanOpen(fs[cur])
       THEN Raise("OSError")
       ELSE /\ IF file_needs_embedding(cur, cache, fs)
               THEN pc' = "read" /\ cur' = cur
               ELSE pc' = "walk" /\ cur' = NoPath
            /\ UNCHANGED << fs, disk, err, cache, documents, dirs, root, todo,
                            hist, mainv, quiet >>

\* with open(file_path, "r", encoding="utf-8") as f: content = f.read();
\* documents.append(Document(...))
read_content ==
    /\ pc = "read"
    /\ IF ~CanOpen(fs[cur])
       THEN Raise("OSError")
       ELSE IF ~Utf8Valid(fs[cur].bytes)
       THEN Raise("UnicodeDecodeError")
       ELSE /\ documents' = Append(documents, Document(utf8_decode(fs[cur].bytes), cur))
            /\ pc' = "update"
            /\ UNCHANGED << fs, disk, err, cache, dirs, root, todo, cur, hist,
                            mainv, quiet >>

\* An update_cache(file_path, cache) that also writes the cache file.
update_cache_step_saving ==
    /\ pc = "update"
    /\ IF ~CanOpen(fs[cur])
       THEN Raise("OSError")
       ELSE /\ cache' = update_cache(cur, cache, fs)
            /\ disk' = json_dump(update_cache(cur, cache, fs))
            /\ pc' = "walk"
            /\ cur' = NoPath
            /\ UNCHANGED << fs, err, documents, dirs, root, todo, hist, mainv, quiet >>

\* update_cache(file_path, cache)
update_cache_step ==
    /\ pc = "update"
    /\ IF ~CanOpen(fs[cur])
       THEN Raise("OSError")
       ELSE /\ cache' = update_cache(cur, cache, fs)
            /\ pc' = "walk"
            /\ cur' = NoPath
            /\ UNCHANGED << fs, disk, err, documents, dirs, root, todo, hist,
                            mainv, quiet >>

\* A save_cache that is skipped when the run found nothing changed.
save_cache_open_if_changed ==
    /\ pc = "walk"
    /\ todo = <<>>
    /\ dirs = <<>>
    /\ IF documents = <<>>
       THEN pc' = "done" /\ UNCHANGED << disk, saves >>
       ELSE pc' = "dump" /\ disk' = Truncated /\ saves' = saves + 1
    /\ UNCHANGED << fs, err, local, disk0, cache0, races, mainv, quiet >>

\* save_cache(cache): open(CACHE_FILE, "w"), once os.walk is exhausted
save_cache_open ==
    /\ pc = "walk"
    /\ todo = <<>>
    /\ dirs = <<>>
    /\ pc' = "dump"
    /\ disk' = Truncated
    /\ saves' = saves + 1
    /\ UNCHANGED << fs, err, local, disk0, cache0, races, mainv, quiet >>

\* json.dump(cache, f, indent=2), and the file is closed
save_cache_dump ==
    /\ pc = "dump"
    /\ pc' = "done"
    /\ disk' = json_dump(cache)
    /\ UNCHANGED << fs, err, local, hist, mainv, quiet >>

\* return documents
load_documents_return ==
    /\ pc = "done"
    /\ pc' = "idle"
    /\ quiet' = TRUE
    /\ Cleared
    /\ IF mpc = "load"
       THEN mpc' = "search" /\ documents' = documents
       ELSE mpc' = mpc /\ documents' = <<>>
    /\ UNCHANGED << fs, disk, store, new_docs, added >>

\* The process ends: everything in memory is gone.
ProcessEnds ==
    /\ pc' = "idle"
    /\ mpc' = "off"
    /\ quiet' = FALSE
    /\ Cleared
    /\ documents' = <<>>
    /\ new_docs' = <<>>
    /\ added' = {}
    /\ UNCHANGED << fs, disk, store >>

\* The exception is caught nowhere (load_documents, main): the process ends.
uncaught ==
    /\ pc = "raised"
    /\ ProcessEnds

\* The process is interrupted (a signal, a power cut) during load_documents.
interrupt ==
    /\ pc \in {"walk", "needs", "read", "update", "dump", "done"}
    /\ ProcessEnds

(***************************************************************************)
(* The environment                                                         *)
(***************************************************************************)
\* A file is created, modified, made unreadable or deleted between two runs.
file_change ==
    /\ pc = "idle"
    /\ mpc = "off"
    /\ \E p \in Paths, s \in FileStates :
        /\ s # fs[p]
        /\ fs' = [fs EXCEPT ![p] = s]
    /\ quiet' = FALSE
    /\ UNCHANGED << disk, store, pc, mpc, err, local, new_docs, hist, added >>

Next ==
    \/ load_documents_begin
    \/ os_walk_next
    \/ next_file
    \/ check_file
    \/ read_content
    \/ update_cache_step
    \/ save_cache_open
    \/ save_cache_dump
    \/ load_documents_return
    \/ uncaught
    \/ interrupt
    \/ file_change

Spec == Init /\ [][Next]_vars

(***************************************************************************)
(* main                                                                    *)
(***************************************************************************)
\* if not ensure_database_exists(...): return
ensure_database_exists ==
    /\ pc = "idle"
    /\ mpc = "off"
    /\ \E ok \in BOOLEAN : mpc' = IF ok THEN "connect" ELSE "off"
    /\ UNCHANGED << fs, disk, store, pc, err, local, new_docs, hist, added, quiet >>

\* if not check_database_connection(...): return
check_database_connection ==
    /\ mpc = "connect"
    /\ \E ok \in BOOLEAN : mpc' = IF ok THEN "model" ELSE "off"
    /\ UNCHANGED << fs, disk, store, pc, err, local, new_docs, hist, added, quiet >>

\* if not check_ollama_model_ready(model_name): return
check_ollama_model_ready ==
    /\ mpc = "model"
    /\ \E ok \in BOOLEAN : mpc' = IF ok THEN "load" ELSE "off"
    /\ UNCHANGED << fs, disk, store, pc, err, local, new_docs, hist, added, quiet >>

\* vector_store.similarity_search("ignore", k=1000): at most k documents
similarity_search(st) ==
    IF Cardinality(st) <= SimilaritySearchK
    THEN {st}
    ELSE { hits \in SUBSET st : Cardinality(hits) = SimilaritySearchK }

\* existing_sources = set(...); new_docs = [doc for doc in documents if ...]
find_new_docs ==
    /\ mpc = "search"
    /\ \E hits \in similarity_search(store) :
        LET existing_sources == { d.source : d \in hits }
            IsNew(d) == d.source \notin existing_sources
        IN  new_docs' = SelectSeq(documents, IsNew)
    /\ mpc' = "add"
    /\ UNCHANGED << fs, disk, store, pc, err, local, hist, added, quiet >>

\* if new_docs: vector_store.add_documents(new_docs)
add_documents ==
    /\ mpc = "add"
    /\ IF new_docs # <<>>
       THEN /\ store' = store \cup { new_docs[i] : i \in 1..Len(new_docs) }
            /\ added' = { new_docs[i] : i \in 1..Len(new_docs) }
       ELSE UNCHANGED << store, added >>
    /\ mpc' = "loop"
    /\ UNCHANGED << fs, disk, pc, err, local, new_docs, hist, quiet >>

\* One question answered: retriever.invoke, chain.stream
answer_question ==
    /\ mpc = "loop"
    /\ UNCHANGED vars

\* user_input.lower() == "exit": break, and main returns
exit_loop ==
    /\ mpc = "loop"
    /\ mpc' = "off"
    /\ documents' = <<>>
    /\ new_docs' = <<>>
    /\ added' = {}
    /\ UNCHANGED << fs, disk, store, pc, err, cache, dirs, root, todo, cur, hist, quiet >>

NextMain ==
    \/ Next
    \/ ensure_database_exists
    \/ check_database_connection
    \/ check_ollama_model_ready
    \/ find_new_docs
    \/ add_documents
    \/ answer_question
    \/ exit_loop

\* main_lore.main, started any number of times
SpecMain == Init /\ [][NextMain]_vars

(***************************************************************************)
(* Another process writing the tree while load_documents runs              *)
(***************************************************************************)
concurrent_write ==
    /\ pc \in {"walk", "needs", "read", "update", "dump", "done"}
    /\ races < MaxRaces
    /\ races' = races + 1
    /\ \E p \in Paths, s \in FileStates :
        /\ s # fs[p]
        /\ fs' = [fs EXCEPT ![p] = s]
    /\ quiet' = FALSE
    /\ UNCHANGED << disk, store, pc, mpc, err, local, new_docs, disk0, cache0,
                    saves, added >>

NextConc == Next \/ concurrent_write

SpecConc == Init /\ [][NextConc]_vars

(***************************************************************************)
(* What the properties speak of                                            *)
(***************************************************************************)
\* The .md and .txt files of the tree, written out.
MdTxtPaths ==
    { <<"d", "a", "t", "a", "/", "a", ".", "m", "d">>,
      <<"d", "a", "t", "a", "/", "s", "u", "b", "/", "b", ".", "t", "x", "t">> }

Sources(docs) == { docs[i].source : i \in 1..Len(docs) }

\* The files whose fingerprint differs from what mapping c holds for them.
ChangedPaths(fsys, c) ==
    { p \in MdTxtPaths :
        /\ fsys[p].exists
        /\ (p \notin DOMAIN c \/ c[p] # md5(fsys[p].bytes)) }

\* A file the run cannot read: open() fails, or the bytes are not UTF-8.
Unreadable(f) == f.exists /\ (~f.readable \/ ~Utf8Valid(f.bytes))

\* The traversal is in progress: save_cache has not been reached.
Traversing == pc \in {"walk", "needs", "read", "update"}

(***************************************************************************)
(* C1: a run that follows a completed run, with no file created, modified  *)
(* or deleted in between, returns an empty document list.                  *)
(***************************************************************************)
C1_Idempotent == (pc = "done" /\ quiet) => documents = <<>>

C1_Witness ==
    /\ pc = "done"
    /\ quiet
    /\ \A p \in MdTxtPaths : CanOpen(fs[p]) /\ p \in DOMAIN cache0

(***************************************************************************)
(* C2: a completed run returns exactly one Document for each .md/.txt file *)
(* whose fingerprint differs from the loaded cache's value for its path    *)
(* (or has none), none for any other file, each carrying its file's path   *)
(* and text, and no path twice.                                            *)
(***************************************************************************)
C2_ExactChangeSet ==
    pc = "done" =>
        /\ Sources(documents) = ChangedPaths(fs, cache0)
        /\ Cardinality(Sources(documents)) = Len(documents)
        /\ \A i \in 1..Len(documents) :
              documents[i].page_content = utf8_decode(fs[documents[i].source].bytes)

C2_Witness ==
    /\ pc = "done"
    /\ \E p, q \in MdTxtPaths :
        /\ p \in Sources(documents) /\ p \in DOMAIN cache0
        /\ q \notin Sources(documents) /\ fs[q].exists
    /\ \E e \in Entries : e.filename = <<"n", ".", "p", "y">>
                          /\ fs[os_path_join(e.root, e.filename)].exists

(***************************************************************************)
(* C3: an unreadable .md/.txt file does not abort the run: the run         *)
(* completes, the other changed files are returned and the cache is saved. *)
(***************************************************************************)
C3_SkipUnreadable ==
    ( /\ pc \in {"raised", "done"}
      /\ err # "JSONDecodeError"
      /\ \E p \in MdTxtPaths : Unreadable(fs[p]) )
    => ( /\ pc = "done"
         /\ saves = 1
         /\ \A q \in ChangedPaths(fs, cache0) :
               ~Unreadable(fs[q]) => q \in Sources(documents) )

(***************************************************************************)
(* C4: when embed_cache.json exists but cannot be parsed, load_cache       *)
(* returns an empty mapping and the run proceeds.                          *)
(***************************************************************************)
C4_CorruptCacheRecovered ==
    (pc # "idle" /\ disk0.exists /\ ~json_valid(disk0))
    => (pc # "raised" /\ cache0 = EmptyDict)

(***************************************************************************)
(* C5: a crash during save_cache leaves embed_cache.json holding either    *)
(* the complete mapping it held before the save or the complete new one.   *)
(***************************************************************************)
C5_AtomicSave ==
    [][ (pc = "dump" /\ pc' = "idle") =>
            (disk' = disk0 \/ disk' = json_dump(cache)) ]_vars

(***************************************************************************)
(* C6: as long as the traversal is in progress, and when the run is        *)
(* interrupted or aborted there, embed_cache.json is as it was when the    *)
(* run began.                                                              *)
(***************************************************************************)
C6_DiskUntouchedBeforeSave ==
    [][ Traversing => (disk = disk0 /\ (pc' \in {"idle", "raised"} => disk' = disk0)) ]_vars

C6_Witness ==
    /\ Traversing
    /\ disk.exists
    /\ \E p \in DOMAIN cache0 : cache[p] # cache0[p]

(***************************************************************************)
(* C7: save_cache is not called while the traversal is in progress; a      *)
(* completed run has called it exactly once, after the last file, and the  *)
(* file then holds the loaded mapping with the fingerprint of every file   *)
(* found changed.                                                          *)
(***************************************************************************)
C7_SingleWrite ==
    /\ Traversing => saves = 0
    /\ pc = "dump" => (saves = 1 /\ todo = <<>> /\ dirs = <<>>)
    /\ pc = "done" =>
        /\ saves = 1
        /\ json_valid(disk)
        /\ json_load(disk) =
              [p \in DOMAIN cache0 \cup Sources(documents) |->
                  IF p \in Sources(documents) THEN md5(fs[p].bytes) ELSE cache0[p]]

C7_Witness == pc = "done" /\ Len(documents) = 2 /\ cache0 # EmptyDict

(***************************************************************************)
(* C8: a deleted file whose path is in the cache is not visited, yields no *)
(* Document, and keeps its entry and fingerprint in the saved cache; no    *)
(* run removes a key.                                                      *)
(***************************************************************************)
C8_StaleEntryKept ==
    /\ pc \in {"needs", "read", "update"} => fs[cur].exists
    /\ (Traversing \/ pc \in {"dump", "done"}) => DOMAIN cache0 \subseteq DOMAIN cache
    /\ pc = "done" =>
        \A p \in DOMAIN cache0 :
            /\ p \in DOMAIN json_load(disk)
            /\ ~fs[p].exists =>
                  (json_load(disk)[p] = cache0[p] /\ p \notin Sources(documents))

C8_Witness ==
    /\ pc = "done"
    /\ documents # <<>>
    /\ \E p \in DOMAIN cache0 : ~fs[p].exists

(***************************************************************************)
(* C9: when main reaches the question loop, every Document load_documents  *)
(* returned to it has been passed to vector_store.add_documents.           *)
(***************************************************************************)
C9_ReturnedDocsAdded ==
    mpc = "loop" => \A i \in 1..Len(documents) : documents[i] \in added

\* The bytes whose UTF-8 decoding is the text.
utf8_encode(text) ==
    [i \in 1..Len(text) |->
        64 + (CHOOSE k \in 1..Len(Alphabet) : Alphabet[k] = text[i])]

(***************************************************************************)
(* C10: with another process writing files during the run, the fingerprint *)
(* the cache holds at the end of the run for each returned Document's      *)
(* source is the fingerprint of the content that Document carries.         *)
(***************************************************************************)
C10_FingerprintOfReturnedContent ==
    pc = "done" =>
        \A i \in 1..Len(documents) :
            cache[documents[i].source] = md5(utf8_encode(documents[i].page_content))

====
